---- MODULE Spec2Model ----
(***************************************************************************)
(* Usecase1Stack (usecase_1/usecase_1/usecase_1_stack.py): an S3 bucket    *)
(* whose "Object Created" events start a Step Functions state machine      *)
(*   ParallelExecution{StartCrawlerTask, StartETLJobTask} -> PublishSNSTask*)
(* with a 15 minute state machine timeout, one shared Glue crawler and one *)
(* Glue job (max_retries=1, timeout=10 minutes).                           *)
(*                                                                         *)
(* The stack is declarative; the model executes the declared graph with    *)
(* the semantics of the services the declarations configure:               *)
(*  - StartCrawlerTask is a request/response call (CallAwsService): the    *)
(*    branch succeeds when StartCrawler is accepted and fails when it is   *)
(*    rejected (the crawler is already running);                           *)
(*  - StartETLJobTask uses IntegrationPattern.RUN_JOB: the branch waits    *)
(*    for the job run that its StartJobRun call created. A retry made by   *)
(*    Glue (max_retries) is a new run of the job that Glue starts itself;  *)
(*    the branch follows only the run it started;                          *)
(*  - the job has no execution_property, so at most one run of it is       *)
(*    active at a time and StartJobRun is rejected while one is;           *)
(*  - neither task declares a Retry or a Catch, so a failed branch fails   *)
(*    ParallelExecution and the execution.                                 *)
(* Time is counted in minutes by Tick.                                     *)
(***************************************************************************)
EXTENDS Naturals, Sequences, FiniteSets

\* ---------------------------------------------------------------- bounds
MaxExecutions == 2

\* ------------------------------------------------------ program constants
\* A state machine timeout set later than the declared one.
StateMachineTimeoutLate == 15 + 5
StateMachineTimeout == 15
\* A job timeout set later than the state machine timeout.
GlueJobTimeoutLate == 10 + 10
GlueJobTimeout == 10
\* A job that Glue restarts twice.
GlueJobMaxRetriesTwo == 1 + 1
GlueJobMaxRetries == 1

SourceBucketName == "source-bucky-2009-apsouth1"
TransformedBucketName == "transform-bucky-2009-apsouth1"

Execs == 1..MaxExecutions

\* ------------------------------------------------------------ the events
Sources == {"aws.s3", "aws.glue"}
DetailTypes == {"Object Created", "Object Deleted"}
BucketNames == {SourceBucketName, TransformedBucketName}
Events == [source : Sources, detailType : DetailTypes, bucket : BucketNames]
NoEvent == [source |-> "", detailType |-> "", bucket |-> ""]

\* events.EventPattern of S3ObjectCreatedRule: every listed field of the
\* event must carry one of the listed values.
EventPattern ==
  [source |-> {"aws.s3"},
   detailType |-> {"Object Created"},
   bucket |-> {SourceBucketName}]

\* A rule that leaves the bucket name out of the pattern.
MatchesAnyBucket(E) ==
  \A f \in {"source", "detailType"} : E[f] \in EventPattern[f]

Matches(E) ==
  \A f \in DOMAIN EventPattern : E[f] \in EventPattern[f]

\* ------------------------------------------------------------- the state
VARIABLES
  status,      \* execution -> NotStarted | Running | End | Failed | TimedOut
  elapsed,     \* execution -> minutes since Start while Running, else 0
  input,       \* execution -> the event that started it
  crawl,       \* execution -> state of the crawl branch
  transform,   \* execution -> state of the transform branch
  published,   \* execution -> number of messages published to the topic
  runs,        \* execution -> states of the job runs made for it, by attempt
  crawler,     \* the shared crawler: [state, last]
  job,         \* the active run of the Glue job: [state, owner, attempt, runtime]
  written      \* executions whose job runs wrote to the transformed bucket

vars == <<status, elapsed, input, crawl, transform, published, runs,
          crawler, job, written>>

IdleJob == [state |-> "IDLE", owner |-> 0, attempt |-> 0, runtime |-> 0]

Terminal(e) == status[e] \in {"End", "Failed", "TimedOut"}

Init ==
  /\ status = [e \in Execs |-> "NotStarted"]
  /\ elapsed = [e \in Execs |-> 0]
  /\ input = [e \in Execs |-> NoEvent]
  /\ crawl = [e \in Execs |-> "Idle"]
  /\ transform = [e \in Execs |-> "Idle"]
  /\ published = [e \in Execs |-> 0]
  /\ runs = [e \in Execs |-> << >>]
  /\ crawler = [state |-> "READY", last |-> "NONE"]
  /\ job = IdleJob
  /\ written = {}

\* ------------------------------------------------- the workflow execution

\* StartCrawlerTask: glue:startCrawler on the one crawler; accepted only
\* when the crawler is not running.
StartCrawlerAccepted == crawler.state = "READY"

\* StartETLJobTask: glue:StartJobRun on the one job; accepted only when no
\* run of the job is active.
StartJobRunAccepted == job.state = "IDLE"

\* The execution the next matching event starts.
NextExecution == CHOOSE e \in Execs :
  /\ status[e] = "NotStarted"
  /\ \A d \in Execs : status[d] = "NotStarted" => e <= d

\* A crawl branch that would wait for the crawl instead of returning.
CrawlBranchWaits == "Waiting"

\* The crawl branch once StartCrawler is accepted: the call is a plain
\* request/response, so the branch is done.
CrawlBranchAfterStart == "Succeeded"

\* Start -> ParallelExecution: both branches issue their call. A rejected
\* call fails its branch and with it ParallelExecution; the sibling branch
\* is then aborted, and a job run it has already started is stopped or not
\* (stopped = TRUE / FALSE).
StartExecution(e, E, stopped) ==
  LET c == StartCrawlerAccepted
      j == StartJobRunAccepted
      keeps == j /\ ~stopped
  IN
  /\ (stopped => j /\ ~c)
  /\ status' = [status EXCEPT ![e] = IF c /\ j THEN "Running" ELSE "Failed"]
  /\ input' = [input EXCEPT ![e] = E]
  /\ crawl' = [crawl EXCEPT ![e] = IF c THEN CrawlBranchAfterStart ELSE "Failed"]
  /\ transform' = [transform EXCEPT ![e] =
        IF ~j THEN "Failed" ELSE IF c THEN "Waiting" ELSE "Aborted"]
  /\ crawler' = IF c THEN [crawler EXCEPT !.state = "RUNNING"]
                ELSE crawler
  /\ job' = IF keeps
            THEN [state |-> "RUNNING", owner |-> e, attempt |-> 0, runtime |-> 0]
            ELSE job
  /\ runs' = [runs EXCEPT ![e] =
        IF ~j THEN << >> ELSE IF stopped THEN <<"STOPPED">> ELSE <<"RUNNING">>]
  /\ UNCHANGED <<elapsed, published, written>>

\* S3ObjectCreatedRule with the state machine as its target: an event that
\* matches the pattern starts an execution with the event as input, any
\* other event is dropped.
RuleDelivers(E) ==
  IF Matches(E)
  THEN /\ \E e \in Execs : status[e] = "NotStarted"
       /\ \E stopped \in BOOLEAN : StartExecution(NextExecution, E, stopped)
  ELSE UNCHANGED vars

\* An event reaches the rule.
PutEvent ==
  \E E \in Events : RuleDelivers(E)

\* The run the transform branch of e waits for: the one StartJobRun made.
Awaited(e) ==
  /\ status[e] = "Running"
  /\ transform[e] = "Waiting"
  /\ job.state = "RUNNING" /\ job.owner = e /\ job.attempt = 0

SetLast(s, v) == [s EXCEPT ![Len(s)] = v]

\* The active job run succeeds: the script has written its output.
JobSucceed ==
  /\ job.state = "RUNNING"
  /\ LET e == job.owner IN
     /\ runs' = [runs EXCEPT ![e] = SetLast(runs[e], "SUCCEEDED")]
     /\ written' = written \cup {e}
     /\ transform' = [transform EXCEPT ![e] =
           IF Awaited(e) THEN "Succeeded" ELSE transform[e]]
  /\ job' = IdleJob
  /\ UNCHANGED <<status, elapsed, input, crawl, published, crawler>>

\* The active job run fails. The branch that waits for it fails, and so do
\* ParallelExecution and the execution. Glue restarts the job while the
\* attempt number is below max_retries.
JobFail ==
  /\ job.state = "RUNNING"
  /\ LET e == job.owner
         retry == job.attempt < GlueJobMaxRetries
     IN
     /\ runs' = [runs EXCEPT ![e] =
           IF retry THEN Append(SetLast(runs[e], "FAILED"), "RUNNING")
           ELSE SetLast(runs[e], "FAILED")]
     /\ job' = IF retry
               THEN [job EXCEPT !.attempt = job.attempt + 1, !.runtime = 0]
               ELSE IdleJob
     /\ transform' = [transform EXCEPT ![e] =
           IF Awaited(e) THEN "Failed" ELSE transform[e]]
     /\ status' = [status EXCEPT ![e] =
           IF Awaited(e) THEN "Failed" ELSE status[e]]
     /\ elapsed' = [elapsed EXCEPT ![e] = IF Awaited(e) THEN 0 ELSE elapsed[e]]
  /\ UNCHANGED <<input, crawl, published, crawler, written>>

\* The crawl ends; the workflow does not look at it.
CrawlerFinish ==
  /\ crawler.state = "RUNNING"
  /\ \E outcome \in {"SUCCEEDED", "FAILED"} :
       crawler' = [crawler EXCEPT !.state = "READY", !.last = outcome]
  /\ UNCHANGED <<status, elapsed, input, crawl, transform, published, runs,
                 job, written>>

\* A Parallel state that would move on once the crawl branch is done.
ParallelCrawlOnly(e) ==
  crawl[e] = "Succeeded"

\* ParallelExecution is complete when both branches succeeded.
ParallelSucceeded(e) ==
  /\ crawl[e] = "Succeeded"
  /\ transform[e] = "Succeeded"

\* A Notify state that an ended execution could enter again.
NotifyAgain(e) ==
  /\ status[e] \in {"Running", "End"}
  /\ ParallelSucceeded(e)

\* parallel.next(publish_sns_task): Notify is entered by a running
\* execution whose ParallelExecution succeeded.
NotifyEnabled(e) ==
  /\ status[e] = "Running"
  /\ ParallelSucceeded(e)

\* PublishSNSTask is the last state of the definition.
PublishSNSTask ==
  \E e \in Execs :
    /\ NotifyEnabled(e)
    /\ published' = [published EXCEPT ![e] = published[e] + 1]
    /\ status' = [status EXCEPT ![e] = "End"]
    /\ elapsed' = [elapsed EXCEPT ![e] = 0]
    /\ UNCHANGED <<input, crawl, transform, runs, crawler, job,
                   written>>

\* One minute passes. The job run that reaches the job timeout ends in
\* TIMEOUT and is not restarted; an execution that reaches the state machine
\* timeout is TimedOut, and the run its branch waits for is stopped or not.
Tick ==
  /\ \/ \E e \in Execs : status[e] = "Running"
     \/ job.state = "RUNNING"
  /\ \E stop \in BOOLEAN :
     LET o == job.owner
         jobTimesOut == job.state = "RUNNING" /\ job.runtime + 1 >= GlueJobTimeout
         failsByJob(e) == jobTimesOut /\ Awaited(e)
         timesOut(e) == /\ status[e] = "Running"
                        /\ ~failsByJob(e)
                        /\ elapsed[e] + 1 >= StateMachineTimeout
         stops == \E e \in Execs : timesOut(e) /\ Awaited(e)
     IN
     /\ stop => stops
     /\ elapsed' = [e \in Execs |->
           IF status[e] = "Running" /\ ~failsByJob(e) /\ ~timesOut(e)
           THEN elapsed[e] + 1 ELSE 0]
     /\ status' = [e \in Execs |->
           IF failsByJob(e) THEN "Failed"
           ELSE IF timesOut(e) THEN "TimedOut"
           ELSE status[e]]
     /\ transform' = [e \in Execs |->
           IF failsByJob(e) THEN "Failed"
           ELSE IF timesOut(e) /\ transform[e] = "Waiting" THEN "Aborted"
           ELSE transform[e]]
     /\ job' = IF job.state # "RUNNING" THEN job
               ELSE IF jobTimesOut \/ stop THEN IdleJob
               ELSE [job EXCEPT !.runtime = job.runtime + 1]
     /\ runs' = IF job.state # "RUNNING" THEN runs
                ELSE IF jobTimesOut
                THEN [runs EXCEPT ![o] = SetLast(runs[o], "TIMEOUT")]
                ELSE IF stop
                THEN [runs EXCEPT ![o] = SetLast(runs[o], "STOPPED")]
                ELSE runs
  /\ UNCHANGED <<input, crawl, published, crawler, written>>

Next ==
  \/ PutEvent
  \/ JobSucceed
  \/ JobFail
  \/ CrawlerFinish
  \/ PublishSNSTask
  \/ Tick

Spec == Init /\ [][Next]_vars

\* The clock does not stop.
LiveSpec == Spec /\ WF_vars(Tick)

\* --------------------------------------------------------- access control
TopicArn == "S3UploadNotificationCDKTopic"
CrawlerArn == "crawler/crawl_on_usecase"
JobArn == "job/my-Etl-Job"
CatalogArn == "catalog"
SourceBucketArn == "arn:aws:s3:::source-bucky-2009-apsouth1"
TransformedBucketArn == "arn:aws:s3:::transform-bucky-2009-apsouth1"

Principals == {"CDKStepFunctionRole", "CDKGlueRole"}

IamResources ==
  {TopicArn, CrawlerArn, JobArn, CatalogArn, SourceBucketArn, TransformedBucketArn}

IamActions ==
  {<<"sns", "Publish">>, <<"glue", "StartCrawler">>, <<"glue", "GetCrawler">>,
   <<"glue", "StartJobRun">>, <<"glue", "GetJobRun">>, <<"glue", "GetJob">>,
   <<"s3", "GetObject">>, <<"s3", "PutObject">>, <<"s3", "ListBucket">>,
   <<"s3", "DeleteObject">>}

\* The policy statements of a role: step_function_role.add_to_policy (twice),
\* iam_resources of StartCrawlerTask, and the managed policies of glue_role
\* (AWSGlueServiceRole, AmazonS3FullAccess) by the services they open.
Statements(p) ==
  IF p = "CDKStepFunctionRole"
  THEN {[actions |-> {<<"sns", "Publish">>}, resources |-> {TopicArn}],
        [actions |-> {<<"glue", "StartCrawler">>, <<"glue", "GetCrawler">>,
                      <<"glue", "StartJobRun">>, <<"glue", "GetJobRun">>,
                      <<"glue", "GetJob">>},
         resources |-> {CrawlerArn, JobArn, CatalogArn}],
        [actions |-> {<<"glue", "StartCrawler">>}, resources |-> {"*"}]}
  ELSE {[actions |-> {<<"glue", "*">>}, resources |-> {"*"}],
        [actions |-> {<<"s3", "*">>}, resources |-> {"*"}]}

\* <<service, "*">> stands for every action of the service, "*" for every
\* resource.
ActionIn(a, as) ==
  \/ a \in as
  \/ <<a[1], "*">> \in as

Allowed(p, a, r) ==
  \E st \in Statements(p) :
    /\ ActionIn(a, st.actions)
    /\ r \in st.resources \/ "*" \in st.resources

\* What the steps run by a role call: PublishSNSTask, StartCrawlerTask and
\* StartETLJobTask (start the run and read its state) for the workflow role;
\* the reads and writes of the job and the crawler for the Glue role (the
\* statement left commented out next to glue_role).
Required(p) ==
  IF p = "CDKStepFunctionRole"
  THEN {<<<<"sns", "Publish">>, TopicArn>>,
        <<<<"glue", "StartCrawler">>, CrawlerArn>>,
        <<<<"glue", "StartJobRun">>, JobArn>>,
        <<<<"glue", "GetJobRun">>, JobArn>>}
  ELSE {<<<<"s3", "GetObject">>, SourceBucketArn>>,
        <<<<"s3", "ListBucket">>, SourceBucketArn>>,
        <<<<"s3", "PutObject">>, SourceBucketArn>>,
        <<<<"s3", "GetObject">>, TransformedBucketArn>>,
        <<<<"s3", "ListBucket">>, TransformedBucketArn>>,
        <<<<"s3", "PutObject">>, TransformedBucketArn>>}

\* =================================================================== claims

MatchesRule(E) ==
  /\ E.source = "aws.s3"
  /\ E.detailType = "Object Created"
  /\ E.bucket = "source-bucky-2009-apsouth1"

Started(e) == status[e] # "NotStarted"

\* C1: Notify (the SNS publish) has run exactly in the executions that
\* reached End; it runs only when both branches had succeeded before the
\* step, never in an execution that Failed or TimedOut, and an execution
\* that ended with both branches succeeded and no message published is one
\* the timeout ended.
C1_NotifyIffBothSucceeded ==
  /\ [](\A e \in Execs :
          /\ published[e] > 0 <=> status[e] = "End"
          /\ published[e] > 0 =>
               crawl[e] = "Succeeded" /\ transform[e] = "Succeeded"
          /\ crawl[e] = "Failed" \/ transform[e] \in {"Failed", "Aborted"}
               => published[e] = 0
          /\ status[e] \in {"Failed", "TimedOut"} => published[e] = 0
          /\ (Terminal(e) /\ crawl[e] = "Succeeded" /\ transform[e] = "Succeeded"
                /\ published[e] = 0) => status[e] = "TimedOut")
  /\ [][\A e \in Execs :
          published'[e] > published[e] =>
            /\ crawl[e] = "Succeeded" /\ transform[e] = "Succeeded"
            /\ status[e] = "Running"]_vars

C1_Witness ==
  \E e \in Execs :
    /\ status[e] = "End" /\ published[e] = 1
    /\ \E d \in Execs : status[d] = "TimedOut" /\ published[d] = 0

\* C2: in every state the rule starts an execution for an event exactly
\* when the event comes from aws.s3, is an "Object Created" and names the
\* source bucket (and an execution is left to start); any other event
\* changes nothing; every started execution has such an event as its input.
C2_TriggerIffMatch ==
  /\ \A E \in Events :
       /\ (ENABLED (RuleDelivers(E) /\ status' # status))
            <=> (MatchesRule(E) /\ \E e \in Execs : ~Started(e))
       /\ ~MatchesRule(E) => ~ENABLED (RuleDelivers(E) /\ vars' # vars)
  /\ \A e \in Execs : Started(e) => MatchesRule(input[e])

C2_Witness ==
  \E e \in Execs : \E d \in Execs :
    /\ status[e] = "Running" /\ MatchesRule(input[e])
    /\ ~Started(d)
    /\ \E E \in Events : E.bucket = TransformedBucketName /\ ENABLED RuleDelivers(E)

\* C3: an execution has at most two job runs (the first and one retry);
\* once the second has failed no run of it is active, its transform branch
\* and ParallelExecution have not succeeded, nothing was published and the
\* execution is Failed.
C3_AtMostTwoAttempts ==
  \A e \in Execs :
    /\ Len(runs[e]) <= 2
    /\ (Len(runs[e]) = 2 /\ runs[e][1] = "FAILED" /\ runs[e][2] = "FAILED") =>
         /\ ~(job.state = "RUNNING" /\ job.owner = e)
         /\ transform[e] \in {"Failed", "Aborted"}
         /\ published[e] = 0
         /\ status[e] = "Failed"

C3_Witness ==
  \E e \in Execs :
    /\ runs[e] = <<"FAILED", "FAILED">>
    /\ transform[e] = "Failed"
    /\ status[e] = "Failed"

C5_WriteOnlyOnBranchSuccess ==
  \A e \in Execs : e \in written => transform[e] = "Succeeded"

\* C6 (as claimed): executions are independent: no call of an execution
\* is rejected because of another execution, so an execution fails only
\* when a job run of its own failed.
C6_Independent ==
  \A e \in Execs :
    Started(e) =>
      /\ crawl[e] # "Failed"
      /\ transform[e] = "Failed" => runs[e] # << >>

\* C7: a job run that reaches the 10 minute job timeout leaves its
\* execution Failed, not TimedOut, with no run started after it; the
\* branch fails by the timeout before the execution's 15th minute.
C7_JobTimeoutBeforeExecutionTimeout ==
  /\ [](\A e \in Execs :
          (Len(runs[e]) > 0 /\ runs[e][Len(runs[e])] = "TIMEOUT") =>
             /\ status[e] = "Failed"
             /\ published[e] = 0
             /\ ~(job.state = "RUNNING" /\ job.owner = e))
  /\ [](\A e \in Execs : \A i \in 1..Len(runs[e]) :
          runs[e][i] = "TIMEOUT" => i = Len(runs[e]))
  /\ [][\A e \in Execs :
          (status[e] = "Running" /\ Len(runs'[e]) > 0
             /\ runs'[e][Len(runs'[e])] = "TIMEOUT")
          => status'[e] = "Failed" /\ elapsed[e] + 1 = 10 /\ elapsed[e] + 1 < 15]_vars

C7_Witness ==
  \E e \in Execs :
    /\ runs[e] = <<"TIMEOUT">>
    /\ transform[e] = "Failed"
    /\ status[e] = "Failed"

\* C8 (as claimed): when an execution runs, each role is allowed exactly
\* the (action, resource) pairs its steps need.
C8_LeastPrivilege ==
  \A e \in Execs : Started(e) =>
    \A p \in Principals : \A a \in IamActions : \A r \in IamResources :
      Allowed(p, a, r) <=> <<a, r>> \in Required(p)

C10_Terminates ==
  /\ \A e \in Execs : status[e] = "Running" ~> Terminal(e)
  /\ [][\A e \in Execs : Terminal(e) => status'[e] = status[e]]_vars
  /\ [](\A e \in Execs : published[e] <= 1)

C10_Witness ==
  \E e \in Execs : \E d \in Execs :
    /\ status[e] = "End" /\ published[e] = 1
    /\ status[d] = "Failed" /\ published[d] = 0

====
